---- MODULE Spec2Model ----
(***************************************************************************)
(* Property storage (AA-tree) and scope-chain resolution of jsobject.c.   *)
(*                                                                         *)
(* The heap is a function from node addresses to js_Property records.     *)
(* Address 0 is the shared static sentinel; malloc hands out 1, 2, ...    *)
(* Names are natural numbers ordered as strcmp orders the strings they    *)
(* stand for; 0 stands for the empty string "" (the sentinel's name).     *)
(***************************************************************************)
EXTENDS Integers, Sequences, FiniteSets, TLC

VARIABLES heap, objs, envs, last, enum, setRet, written, out

vars == <<heap, objs, envs, last, enum, setRet, written, out>>

---------------------------------------------------------------------------
(* Bounds of the model *)

\* the names of a one-object run are 0 .. MaxName
MaxName == 3
\* environments and nodes a scope-chain run may allocate
MaxEnvs == 3
MaxEnvNodes == 2
Names == 0 .. MaxName
\* the two variable names of a scope-chain run
EnvNames == {1, 2}
\* value.type of a node: what newproperty stores, and what a caller stores
JS_TUNDEFINED == "JS_TUNDEFINED"
JS_TNUMBER == "JS_TNUMBER"
Values == {JS_TUNDEFINED, JS_TNUMBER}

---------------------------------------------------------------------------
(* Pointers *)

\* &sentinel
sentinel == 0
\* the null pointer of js_Property *
NULL == -1
\* the null pointer of js_Environment * and js_Object *
NoEnv == 0
\* no name argument (js_firstproperty)
NoName == -1
\* js_Property *stack[100]
StackSize == 100
\* an out-of-bounds write to stack[] in lookupnext
FAULT == -2

\* static js_Property sentinel = { "", &sentinel, &sentinel, 0 };
SentinelNode ==
    [name |-> 0, left |-> sentinel, right |-> sentinel, level |-> 0,
     value |-> JS_TUNDEFINED, flags |-> 0]

strcmp(a, b) == IF a < b THEN -1 ELSE IF a > b THEN 1 ELSE 0

---------------------------------------------------------------------------
(* The tree engine *)

\* malloc + initialisation of a node; malloc returns the next unused address
newproperty(h, name) ==
    LET node == Cardinality(DOMAIN h)
    IN  [h    |-> [a \in (DOMAIN h) \cup {node} |->
                      IF a = node
                      THEN [name |-> name, left |-> sentinel,
                            right |-> sentinel, level |-> 1,
                            value |-> JS_TUNDEFINED, flags |-> 0]
                      ELSE h[a]],
         node |-> node]

RECURSIVE lookup(_, _, _)
lookup(h, node, name) ==
    IF node # sentinel
    THEN LET c == strcmp(name, h[node].name)
         IN  IF c = 0 THEN node
             ELSE IF c < 0 THEN lookup(h, h[node].left, name)
             ELSE lookup(h, h[node].right, name)
    ELSE NULL

\* skew that leaves a left horizontal link in place
skewNoRotate(h, node) == [h |-> h, node |-> node]

\* skew that tests left->level <= level: a node whose left child is the
\* sentinel is rotated under it
skewRotatesLeaf(h, node) ==
    IF h[node].level # 0
    THEN LET rot  == h[h[node].left].level <= h[node].level
             save == node
             n1   == IF rot THEN h[node].left ELSE node
             h1   == IF rot
                     THEN [h EXCEPT ![save].left = h[n1].right,
                                    ![n1].right = save]
                     ELSE h
         IN  [h |-> h1, node |-> n1]
    ELSE [h |-> h, node |-> node]

RECURSIVE skew(_, _)
skew(h, node) ==
    IF h[node].level # 0
    THEN LET rot  == h[h[node].left].level = h[node].level
             save == node
             n1   == IF rot THEN h[node].left ELSE node
             h1   == IF rot
                     THEN [h EXCEPT ![save].left = h[n1].right,
                                    ![n1].right = save]
                     ELSE h
             r    == skew(h1, h1[n1].right)
         IN  [h |-> [r.h EXCEPT ![n1].right = r.node], node |-> n1]
    ELSE [h |-> h, node |-> node]

\* split that forgets node->left = save: the old subtree root is dropped
RECURSIVE splitDropsSave(_, _)
splitDropsSave(h, node) ==
    IF h[node].level # 0 /\ h[h[h[node].right].right].level = h[node].level
    THEN LET save == node
             n1   == h[node].right
             h1   == [h EXCEPT ![save].right = h[n1].left,
                               ![n1].level = @ + 1]
             r    == splitDropsSave(h1, h1[n1].right)
         IN  [h |-> [r.h EXCEPT ![n1].right = r.node], node |-> n1]
    ELSE [h |-> h, node |-> node]

\* split that rotates but forgets node->level++
RECURSIVE splitKeepsLevel(_, _)
splitKeepsLevel(h, node) ==
    IF h[node].level # 0 /\ h[h[h[node].right].right].level = h[node].level
    THEN LET save == node
             n1   == h[node].right
             h1   == [h EXCEPT ![save].right = h[n1].left,
                               ![n1].left = save]
             r    == splitKeepsLevel(h1, h1[n1].right)
         IN  [h |-> [r.h EXCEPT ![n1].right = r.node], node |-> n1]
    ELSE [h |-> h, node |-> node]

RECURSIVE split(_, _)
split(h, node) ==
    IF h[node].level # 0 /\ h[h[h[node].right].right].level = h[node].level
    THEN LET save == node
             n1   == h[node].right
             h1   == [h EXCEPT ![save].right = h[n1].left,
                               ![n1].left = save,
                               ![n1].level = @ + 1]
             r    == split(h1, h1[n1].right)
         IN  [h |-> [r.h EXCEPT ![n1].right = r.node], node |-> n1]
    ELSE [h |-> h, node |-> node]

\* insert initialising the node again when the name is already there
\* insert without the equality branch: an equal name goes to the right
RECURSIVE insertNoEqual(_, _, _)
insertNoEqual(h, node, name) ==
    IF node # sentinel
    THEN LET c   == strcmp(name, h[node].name)
             sub == IF c < 0 THEN insertNoEqual(h, h[node].left, name)
                             ELSE insertNoEqual(h, h[node].right, name)
             h1  == IF c < 0
                    THEN [sub.h EXCEPT ![node].left = sub.node]
                    ELSE [sub.h EXCEPT ![node].right = sub.node]
             sk  == skew(h1, node)
             sp  == split(sk.h, sk.node)
         IN  [h |-> sp.h, node |-> sp.node, result |-> sub.result,
              created |-> sub.created]
    ELSE LET n == newproperty(h, name)
         IN  [h |-> n.h, node |-> n.node, result |-> n.node, created |-> TRUE]

RECURSIVE insertReinit(_, _, _)
insertReinit(h, node, name) ==
    IF node # sentinel
    THEN LET c == strcmp(name, h[node].name)
         IN  IF c = 0
             THEN [h |-> [h EXCEPT ![node].value = JS_TUNDEFINED],
                   node |-> node, result |-> node, created |-> FALSE]
             ELSE LET sub == IF c < 0 THEN insertReinit(h, h[node].left, name)
                                      ELSE insertReinit(h, h[node].right, name)
                      h1  == IF c < 0
                             THEN [sub.h EXCEPT ![node].left = sub.node]
                             ELSE [sub.h EXCEPT ![node].right = sub.node]
                      sk  == skew(h1, node)
                      sp  == split(sk.h, sk.node)
                  IN  [h |-> sp.h, node |-> sp.node, result |-> sub.result,
                       created |-> sub.created]
    ELSE LET n == newproperty(h, name)
         IN  [h |-> n.h, node |-> n.node, result |-> n.node, created |-> TRUE]

\* returns the heap, the subtree's new root, *result, and whether a node
\* was allocated
RECURSIVE insert(_, _, _)
insert(h, node, name) ==
    IF node # sentinel
    THEN LET c == strcmp(name, h[node].name)
         IN  IF c = 0
             THEN [h |-> h, node |-> node, result |-> node, created |-> FALSE]
             ELSE LET sub == IF c < 0 THEN insert(h, h[node].left, name)
                                      ELSE insert(h, h[node].right, name)
                      h1  == IF c < 0
                             THEN [sub.h EXCEPT ![node].left = sub.node]
                             ELSE [sub.h EXCEPT ![node].right = sub.node]
                      sk  == skew(h1, node)
                      sp  == split(sk.h, sk.node)
                  IN  [h |-> sp.h, node |-> sp.node, result |-> sub.result,
                       created |-> sub.created]
    ELSE LET n == newproperty(h, name)
         IN  [h |-> n.h, node |-> n.node, result |-> n.node, created |-> TRUE]

\* lookupfirst that does not descend: it returns the subtree's root
lookupfirstRoot(h, node) == IF node # sentinel THEN node ELSE NULL

RECURSIVE lookupfirst(_, _)
lookupfirst(h, node) ==
    IF node # sentinel
    THEN IF h[node].left = sentinel THEN node
         ELSE lookupfirst(h, h[node].left)
    ELSE NULL

\* the search loop of lookupnext: stack is stack[0 .. top] as a sequence
\* (stack[top] is its last element)
RECURSIVE searchpath(_, _, _, _)
searchpath(h, node, name, stack) ==
    IF node # sentinel
    THEN IF Len(stack) >= StackSize
         THEN [found |-> FALSE, node |-> FAULT, stack |-> stack]
         ELSE LET st == Append(stack, node)
                  c  == strcmp(name, h[node].name)
              IN  IF c = 0 THEN [found |-> TRUE, node |-> node, stack |-> st]
                  ELSE IF c < 0 THEN searchpath(h, h[node].left, name, st)
                  ELSE searchpath(h, h[node].right, name, st)
    ELSE [found |-> FALSE, node |-> NULL, stack |-> stack]

\* the climb stopping at the first parent, whichever side the node is on
climbOneStep(h, node, stack, top) == stack[top + 1]

\* the climb of lookupnext: parent is stack[top]
RECURSIVE climb(_, _, _, _)
climb(h, node, stack, top) ==
    LET parent == stack[top + 1]
    IN  IF parent # NULL /\ node = h[parent].right
        THEN climb(h, parent, stack, top - 1)
        ELSE parent

\* lookupnext falling through to the last node of the search path when the
\* name is not found
lookupnextNoNull(h, node, name) ==
    LET s == searchpath(h, node, name, <<NULL>>)
    IN  IF ~s.found THEN s.stack[Len(s.stack)]
        ELSE IF h[s.node].right # sentinel
        THEN lookupfirst(h, h[s.node].right)
        ELSE climb(h, s.node, s.stack, (Len(s.stack) - 1) - 1)

lookupnext(h, node, name) ==
    LET s == searchpath(h, node, name, <<NULL>>)
    IN  IF ~s.found THEN s.node
        ELSE IF h[s.node].right # sentinel
        THEN lookupfirst(h, h[s.node].right)
        ELSE climb(h, s.node, s.stack, (Len(s.stack) - 1) - 1)

---------------------------------------------------------------------------
(* Objects and environments *)

\* obj->properties of a new object
js_newobject == sentinel

\* js_newenvironment with the two fields assigned crosswise
js_newenvironmentSwapped(outer, variables) ==
    [outer |-> variables, variables |-> outer]

js_newenvironment(outer, variables) ==
    [outer |-> outer, variables |-> variables]

js_getproperty(h, os, obj, name) == lookup(h, os[obj], name)

\* the heap and the objects after the call, the returned node, the object
\* written, and whether a node was allocated
js_setproperty(h, os, obj, name) ==
    LET r == insert(h, os[obj], name)
    IN  [h |-> r.h, objs |-> [os EXCEPT ![obj] = r.node], ret |-> r.result,
         obj |-> obj, created |-> r.created, called |-> TRUE]

js_firstproperty(h, os, obj) == lookupfirst(h, os[obj])

js_nextproperty(h, os, obj, name) == lookupnext(h, os[obj], name)

\* js_getvar that keeps walking outward after a match: the outermost
\* binding wins
RECURSIVE js_getvarOutermost(_, _, _, _, _)
js_getvarOutermost(h, os, es, E, name) ==
    IF E # NoEnv
    THEN LET ref == js_getvarOutermost(h, os, es, es[E].outer, name)
         IN  IF ref # NULL THEN ref
             ELSE js_getproperty(h, os, es[E].variables, name)
    ELSE NULL

RECURSIVE js_getvar(_, _, _, _, _)
js_getvar(h, os, es, E, name) ==
    IF E # NoEnv
    THEN LET ref == js_getproperty(h, os, es[E].variables, name)
         IN  IF ref # NULL THEN ref
             ELSE js_getvar(h, os, es, es[E].outer, name)
    ELSE NULL

\* the loop looking at E only and then going straight to the root
RECURSIVE outermost(_, _)
outermost(es, E) == IF es[E].outer = NoEnv THEN E ELSE outermost(es, es[E].outer)

setvarloopSkips(h, os, es, E, name) ==
    LET ref == js_getproperty(h, os, es[E].variables, name)
    IN  IF ref # NULL THEN [ref |-> ref, E |-> E]
        ELSE [ref |-> NULL, E |-> outermost(es, E)]

\* the while (1) loop of js_setvar: the reference found, or NULL and the
\* environment the loop stopped at
RECURSIVE setvarloop(_, _, _, _, _)
setvarloop(h, os, es, E, name) ==
    LET ref == js_getproperty(h, os, es[E].variables, name)
    IN  IF ref # NULL THEN [ref |-> ref, E |-> E]
        ELSE IF es[E].outer = NoEnv THEN [ref |-> NULL, E |-> E]
        ELSE setvarloop(h, os, es, es[E].outer, name)

\* js_setvar declaring in the scope it was called on
js_setvarInnermost(h, os, es, E, name) ==
    LET w == setvarloop(h, os, es, E, name)
    IN  IF w.ref # NULL
        THEN [h |-> h, objs |-> os, ret |-> w.ref, obj |-> es[w.E].variables,
              created |-> FALSE, called |-> FALSE]
        ELSE js_setproperty(h, os, es[E].variables, name)

js_setvar(h, os, es, E, name) ==
    LET w == setvarloop(h, os, es, E, name)
    IN  IF w.ref # NULL
        THEN [h |-> h, objs |-> os, ret |-> w.ref, obj |-> es[w.E].variables,
              created |-> FALSE, called |-> FALSE]
        ELSE js_setproperty(h, os, es[w.E].variables, name)

\* js_decvar resolving the name like an assignment
js_decvarFallsThrough(h, os, es, E, name) == js_setvar(h, os, es, E, name)

js_decvar(h, os, es, E, name) == js_setproperty(h, os, es[E].variables, name)

---------------------------------------------------------------------------
(* State *)

\* heap   : address -> js_Property (address 0 is the sentinel)
\* objs   : object -> obj->properties
\* envs   : environment -> [outer, variables]
\* last   : the last call made and what it returned
\* enum   : a caller's for-each-key loop: the object, the names visited so
\*          far, whether it has ended, and the keys the object had at its
\*          start (history)
\* setRet : history of js_setproperty: <<object, name, node returned>>
\* written: history of the caller's stores: node -> the value.type stored
\*          last (JS_TUNDEFINED while the caller has stored nothing)

Objs == 1 .. Len(objs)
Envs == 1 .. Len(envs)

NoCall == [op |-> "none", tgt |-> 0, name |-> NoName, ret |-> NULL,
           created |-> FALSE]

NoEnum == [obj |-> 0, visited |-> <<>>, done |-> FALSE, startKeys |-> {}]

RECURSIVE Closure(_, _)
Closure(h, S) ==
    LET T == S \cup {h[x].left : x \in S} \cup {h[x].right : x \in S}
    IN  IF T = S THEN S ELSE Closure(h, T)

\* the real nodes reachable from a root through left and right links
NodesOf(h, root) == Closure(h, {root}) \ {sentinel}

KeysOf(h, root) == {h[x].name : x \in NodesOf(h, root)}

InitHeap == [a \in {sentinel} |-> SentinelNode]

\* one object, just made by js_newobject, and no environment
InitTree ==
    /\ heap = InitHeap
    /\ objs = <<js_newobject>>
    /\ envs = <<>>
    /\ last = NoCall
    /\ enum = NoEnum
    /\ setRet = {}
    /\ written = <<>>
    /\ out = <<>>

\* nothing constructed yet
Init ==
    /\ heap = InitHeap
    /\ objs = <<>>
    /\ envs = <<>>
    /\ last = NoCall
    /\ enum = NoEnum
    /\ setRet = {}
    /\ written = <<>>
    /\ out = <<>>

---------------------------------------------------------------------------
(* Dumping: the lines printed on stdout *)

OpenLine  == [text |-> "{", name |-> NoName, value |-> ""]
CloseLine == [text |-> "}", name |-> NoName, value |-> ""]
EntryLine(name, value) == [text |-> "\t%s: ,", name |-> name, value |-> value]

\* the text printed for a value: by its type
js_dumpvalue(v) ==
    IF v = JS_TUNDEFINED THEN "undefined"
    ELSE IF v = JS_TNUMBER THEN "%.9g"
    ELSE "?"

\* js_dumpproperty that prints the node before its left subtree
RECURSIVE js_dumppropertyPreorder(_, _)
js_dumppropertyPreorder(h, node) ==
    <<EntryLine(h[node].name, js_dumpvalue(h[node].value))>>
    \o (IF h[node].left # sentinel
        THEN js_dumppropertyPreorder(h, h[node].left) ELSE <<>>)
    \o (IF h[node].right # sentinel
        THEN js_dumppropertyPreorder(h, h[node].right) ELSE <<>>)

RECURSIVE js_dumpproperty(_, _)
js_dumpproperty(h, node) ==
    (IF h[node].left # sentinel
     THEN js_dumpproperty(h, h[node].left) ELSE <<>>)
    \o <<EntryLine(h[node].name, js_dumpvalue(h[node].value))>>
    \o (IF h[node].right # sentinel
        THEN js_dumpproperty(h, h[node].right) ELSE <<>>)

js_dumpobject(h, os, obj) ==
    <<OpenLine>>
    \o (IF os[obj] # sentinel THEN js_dumpproperty(h, os[obj]) ELSE <<>>)
    \o <<CloseLine>>

---------------------------------------------------------------------------
(* State after construction *)

Call(op, tgt, name, ret, created) ==
    [op |-> op, tgt |-> tgt, name |-> name, ret |-> ret, created |-> created]

---------------------------------------------------------------------------
(* Operations *)

\* a scope is entered: js_newenvironment(J, outer, js_newobject(J, ...)),
\* every environment owning the object it wraps
JsNewEnvironment(outer) ==
    /\ outer \in Envs \cup {NoEnv}
    /\ objs' = Append(objs, js_newobject)
    /\ envs' = Append(envs, js_newenvironment(outer, Len(objs) + 1))
    /\ last' = Call("js_newenvironment", Len(envs) + 1, NoName, NULL, FALSE)
    /\ out' = <<>>
    /\ UNCHANGED <<heap, enum, setRet, written>>

\* the effect of a call that may reach js_setproperty
Write(op, tgt, name, r) ==
    /\ heap' = r.h
    /\ objs' = r.objs
    /\ last' = Call(op, tgt, name, r.ret, r.created)
    /\ setRet' = IF r.called THEN setRet \cup {<<r.obj, name, r.ret>>}
                 ELSE setRet
    /\ written' = [a \in DOMAIN r.h \ {sentinel} |->
                      IF a \in DOMAIN written THEN written[a]
                      ELSE JS_TUNDEFINED]
    /\ out' = <<>>
    /\ UNCHANGED <<envs, enum>>

\* the effect of a call that returns a node or NULL
Read(op, tgt, name, ret) ==
    /\ last' = Call(op, tgt, name, ret, FALSE)
    /\ out' = <<>>
    /\ UNCHANGED <<heap, objs, envs, enum, setRet, written>>

JsSetProperty(obj, name) ==
    /\ obj \in Objs
    /\ Write("js_setproperty", obj, name, js_setproperty(heap, objs, obj, name))

JsGetProperty(obj, name) ==
    /\ obj \in Objs
    /\ Read("js_getproperty", obj, name, js_getproperty(heap, objs, obj, name))

JsFirstProperty(obj) ==
    /\ obj \in Objs
    /\ Read("js_firstproperty", obj, NoName, js_firstproperty(heap, objs, obj))

JsNextProperty(obj, name) ==
    /\ obj \in Objs
    /\ Read("js_nextproperty", obj, name, js_nextproperty(heap, objs, obj, name))

JsDecVar(E, name) ==
    /\ E \in Envs
    /\ Write("js_decvar", E, name, js_decvar(heap, objs, envs, E, name))

\* a read that declares the name when no scope binds it
JsGetVarDeclares(E, name) ==
    /\ E \in Envs
    /\ Write("js_getvar", E, name, js_setvar(heap, objs, envs, E, name))

JsGetVar(E, name) ==
    /\ E \in Envs
    /\ Read("js_getvar", E, name, js_getvar(heap, objs, envs, E, name))

JsSetVar(E, name) ==
    /\ E \in Envs
    /\ Write("js_setvar", E, name, js_setvar(heap, objs, envs, E, name))

\* the caller stores a value in the node the last call returned
AssignValue(v) ==
    /\ last.ret \in DOMAIN heap
    /\ last.ret # sentinel
    /\ heap[last.ret].value # v
    /\ heap' = [heap EXCEPT ![last.ret].value = v]
    /\ written' = [written EXCEPT ![last.ret] = v]
    /\ UNCHANGED <<objs, envs, last, enum, setRet, out>>

\* a for-each-key loop starts: js_firstproperty
EnumFirst(obj) ==
    /\ obj \in Objs
    /\ LET r == js_firstproperty(heap, objs, obj)
       IN  /\ enum' = [obj |-> obj,
                       visited |-> IF r = NULL THEN <<>> ELSE <<heap[r].name>>,
                       done |-> (r = NULL),
                       startKeys |-> KeysOf(heap, objs[obj])]
           /\ last' = Call("js_firstproperty", obj, NoName, r, FALSE)
    /\ out' = <<>>
    /\ UNCHANGED <<heap, objs, envs, setRet, written>>

\* the loop steps: js_nextproperty with the name of the node returned last
EnumNext ==
    /\ enum.obj # 0
    /\ ~enum.done
    /\ LET name == enum.visited[Len(enum.visited)]
           r    == js_nextproperty(heap, objs, enum.obj, name)
       IN  /\ enum' = IF r = NULL THEN [enum EXCEPT !.done = TRUE]
                      ELSE [enum EXCEPT !.visited = Append(@, heap[r].name)]
           /\ last' = Call("js_nextproperty", enum.obj, name, r, FALSE)
    /\ out' = <<>>
    /\ UNCHANGED <<heap, objs, envs, setRet, written>>

\* js_dumpobject prints the object; out is what the last call printed
JsDumpObject(obj) ==
    /\ obj \in Objs
    /\ out' = js_dumpobject(heap, objs, obj)
    /\ last' = Call("js_dumpobject", obj, NoName, NULL, FALSE)
    /\ UNCHANGED <<heap, objs, envs, enum, setRet, written>>

Allocated == Cardinality(DOMAIN heap) - 1

\* one object: insertions, lookups and for-each-key loops
TreeNext ==
    \/ \E name \in Names : JsSetProperty(1, name)
    \/ \E name \in Names : JsGetProperty(1, name)
    \/ \E name \in Names : JsNextProperty(1, name)
    \/ EnumFirst(1)
    \/ EnumNext

SpecTree == InitTree /\ [][TreeNext]_vars

\* one object: insertions, lookups and the values the caller stores
ValueNext ==
    \/ \E name \in Names : JsSetProperty(1, name)
    \/ \E name \in Names : JsGetProperty(1, name)
    \/ \E v \in Values : AssignValue(v)

SpecValue == InitTree /\ [][ValueNext]_vars

\* one object: insertions, stored values and dumps
DumpNext ==
    \/ \E name \in Names : JsSetProperty(1, name)
    \/ \E v \in Values : AssignValue(v)
    \/ JsDumpObject(1)

SpecDump == InitTree /\ [][DumpNext]_vars

\* scope chains
Next ==
    \/ \E outer \in Envs \cup {NoEnv} :
         /\ Len(envs) < MaxEnvs
         /\ JsNewEnvironment(outer)
    \/ \E E \in Envs, name \in EnvNames :
         /\ Allocated < MaxEnvNodes
         /\ JsDecVar(E, name)
    \/ \E E \in Envs, name \in EnvNames : JsGetVar(E, name)
    \/ \E E \in Envs, name \in EnvNames :
         /\ Allocated < MaxEnvNodes
         /\ JsSetVar(E, name)
    \/ \E obj \in Objs, name \in EnvNames : JsGetProperty(obj, name)
    \/ \E obj \in Objs : JsFirstProperty(obj)
    \/ \E obj \in Objs, name \in EnvNames : JsNextProperty(obj, name)

Spec == Init /\ [][Next]_vars

---------------------------------------------------------------------------
(* Reference definitions the properties are stated with *)

Min(S) == CHOOSE m \in S : \A x \in S : m <= x

RECURSIVE SortedSeq(_)
SortedSeq(S) == IF S = {} THEN <<>> ELSE <<Min(S)>> \o SortedSeq(S \ {Min(S)})

ObjKeys(obj) == KeysOf(heap, objs[obj])

\* the AA-tree balance law at one node
AANode(h, x) ==
    /\ h[h[x].left].level = h[x].level - 1
    /\ h[h[x].right].level \in {h[x].level, h[x].level - 1}
    /\ ~(/\ h[h[x].right].level = h[x].level
         /\ h[h[h[x].right].right].level = h[x].level)
    /\ (h[x].left = sentinel /\ h[x].right = sentinel) => h[x].level = 1
    /\ h[x].level > 1 => (h[x].left # sentinel /\ h[x].right # sentinel)

\* the scopes of E's chain, innermost first
RECURSIVE Chain(_, _)
Chain(es, E) == IF E = NoEnv THEN <<>> ELSE <<E>> \o Chain(es, es[E].outer)

\* the nodes and the keys of an environment's bindings
ScopeNodes(h, os, es, E) == NodesOf(h, os[es[E].variables])
ScopeKeys(h, os, es, E) == KeysOf(h, os[es[E].variables])

\* the positions of E's chain whose scope binds name
Binding(E, name) ==
    {i \in 1 .. Len(Chain(envs, E)) :
        name \in ScopeKeys(heap, objs, envs, Chain(envs, E)[i])}

\* a scope's bindings are the same before and after a step: same root, and
\* every node with the same links, level, name and value
ScopeUnchanged(E) ==
    /\ objs'[envs[E].variables] = objs[envs[E].variables]
    /\ \A x \in ScopeNodes(heap, objs, envs, E) : heap'[x] = heap[x]

---------------------------------------------------------------------------
(* Properties *)

\* C1: after any sequence of js_setproperty calls every node of every
\* property tree satisfies the AA-tree balance law (left child one level
\* down, right child at the same level or one down, no two consecutive
\* right horizontal links, leaves at level 1, two real children above
\* level 1), and the sentinel's level is 0.
C1_Balance ==
    /\ heap[sentinel].level = 0
    /\ \A obj \in Objs : \A x \in NodesOf(heap, objs[obj]) : AANode(heap, x)

\* a tree of four nodes whose root is at level 2 and has been rotated in
\* (it is not the node allocated first)
C1_Witness ==
    /\ Cardinality(NodesOf(heap, objs[1])) = 4
    /\ heap[objs[1]].level = 2
    /\ objs[1] # 1
    /\ \E x \in NodesOf(heap, objs[1]) :
         heap[x].right # sentinel /\ heap[heap[x].right].level = heap[x].level

\* C2: js_firstproperty followed by js_nextproperty with the name of the
\* node returned last visits the keys in strictly ascending order, each
\* once, and returns NULL after the largest: the names visited are the
\* sorted key set, whatever the insertion order; on an object without
\* properties js_firstproperty returns NULL.
C2_Enumeration ==
    /\ (enum.obj # 0 /\ enum.startKeys = ObjKeys(enum.obj)) =>
          LET sorted == SortedSeq(ObjKeys(enum.obj))
          IN  /\ Len(enum.visited) <= Len(sorted)
              /\ enum.visited = SubSeq(sorted, 1, Len(enum.visited))
              /\ enum.done => enum.visited = sorted
    /\ (last.op = "js_firstproperty" /\ ObjKeys(last.tgt) = {}) =>
          last.ret = NULL

\* a loop over four keys has ended, on a tree whose root was rotated in
C2_Witness ==
    /\ enum.obj # 0
    /\ enum.done
    /\ Len(enum.visited) = 4
    /\ enum.startKeys = ObjKeys(enum.obj)
    /\ objs[enum.obj] # 1

\* C10: js_nextproperty with a name that is not a key of the object returns
\* NULL and does not fault, on the empty tree and on any other, whether or
\* not greater keys exist.
C10_NextOfMissing ==
    (last.op = "js_nextproperty" /\ last.name \notin ObjKeys(last.tgt)) =>
        last.ret = NULL

\* js_nextproperty was called with a missing name below a key of the tree
C10_Witness ==
    /\ last.op = "js_nextproperty"
    /\ last.name \notin ObjKeys(last.tgt)
    /\ \E k \in ObjKeys(last.tgt) : k > last.name
    /\ \E k \in ObjKeys(last.tgt) : k < last.name
    /\ last.ret = NULL

\* C3: js_getproperty(obj, name) returns a node exactly when name was
\* passed to an earlier js_setproperty on obj, and then the very node that
\* js_setproperty returned, with that name and the value the caller stored
\* last; each key set is held by exactly one node of the tree, whatever
\* rotations later insertions made.
C3_GetAfterSet ==
    /\ \A obj \in Objs : \A name \in Names :
         LET r    == js_getproperty(heap, objs, obj, name)
             rets == {t[3] : t \in {u \in setRet : u[1] = obj /\ u[2] = name}}
             held == {x \in NodesOf(heap, objs[obj]) : heap[x].name = name}
         IN  /\ (r # NULL) <=> (rets # {})
             /\ rets # {} => /\ rets = {r}
                             /\ held = {r}
                             /\ heap[r].value = written[r]
             /\ rets = {} => held = {}
    /\ last.op = "js_getproperty" =>
         last.ret = js_getproperty(heap, objs, last.tgt, last.name)

\* js_getproperty returned a node that holds a value the caller stored and
\* that a later insertion rotated below a new root
C3_Witness ==
    /\ last.op = "js_getproperty"
    /\ last.ret # NULL
    /\ <<last.tgt, last.name, last.ret>> \in setRet
    /\ heap[last.ret].value = JS_TNUMBER
    /\ last.ret = 1
    /\ objs[last.tgt] # 1
    /\ heap[objs[last.tgt]].level = 2

C5_GetVarInnermost ==
    last.op = "js_getvar" =>
        LET ch   == Chain(envs, last.tgt)
            hits == Binding(last.tgt, last.name)
        IN  IF hits = {} THEN last.ret = NULL
            ELSE /\ last.ret \in ScopeNodes(heap, objs, envs, ch[Min(hits)])
                 /\ heap[last.ret].name = last.name

\* js_getvar on an inner scope returned the inner binding of a name that the
\* outer scope binds too
C5_Witness ==
    /\ last.op = "js_getvar"
    /\ Binding(last.tgt, last.name) = {1, 2}
    /\ last.ret \in ScopeNodes(heap, objs, envs, last.tgt)

C9_ReadsDoNotWrite ==
    [][last'.op \in {"js_getvar", "js_getproperty", "js_firstproperty",
                     "js_nextproperty"}
       => /\ heap' = heap
          /\ objs' = objs
          /\ envs' = envs
          /\ (last'.op = "js_getvar" /\ Binding(last'.tgt, last'.name) = {})
               => last'.ret = NULL]_vars

\* js_getvar returned NULL on a chain of two scopes that bind another name
C9_Witness ==
    /\ last.op = "js_getvar"
    /\ last.ret = NULL
    /\ Len(Chain(envs, last.tgt)) >= 2
    /\ \A i \in 1 .. 2 :
         ScopeKeys(heap, objs, envs, Chain(envs, last.tgt)[i]) # {}

---------------------------------------------------------------------------
(* Height *)

Max(a, b) == IF a >= b THEN a ELSE b

\* the number of nodes on the longest path from node down to a leaf
RECURSIVE Height(_, _)
Height(h, node) ==
    IF node = sentinel THEN 0
    ELSE 1 + Max(Height(h, h[node].left), Height(h, h[node].right))

RECURSIVE Pow2(_)
Pow2(n) == IF n = 0 THEN 1 ELSE 2 * Pow2(n - 1)

\* top when the search loop of lookupnext ends: the nodes pushed
PathLen(h, root, name) == Len(searchpath(h, root, name, <<NULL>>).stack) - 1

\* C11: with n the number of keys of a tree and L its root's level,
\* 2^L - 1 <= n and the height is at most 2 * L; the search loop of
\* lookupnext pushes at most height nodes, so top stays inside stack[100].
C11_HeightBound ==
    \A obj \in Objs :
        LET root == objs[obj]
            n    == Cardinality(NodesOf(heap, root))
            L    == heap[root].level
        IN  /\ Pow2(L) - 1 <= n
            /\ Height(heap, root) <= 2 * L
            /\ \A name \in Names :
                 /\ PathLen(heap, root, name) <= Height(heap, root)
                 /\ PathLen(heap, root, name) < StackSize
                 /\ js_nextproperty(heap, objs, obj, name) # FAULT
            /\ last.op = "js_nextproperty" => last.ret # FAULT

\* js_nextproperty searched down to the deepest node of a tree of height 3
C11_Witness ==
    /\ last.op = "js_nextproperty"
    /\ Height(heap, objs[last.tgt]) = 3
    /\ heap[objs[last.tgt]].level = 2
    /\ PathLen(heap, objs[last.tgt], last.name) = 3

---------------------------------------------------------------------------
(* The shared sentinel *)

\* C12: the sentinel is never written: in every state it has level 0 and
\* its left and right point to itself; it is the only node of level 0,
\* skew and split leave it alone, and it is a root only of an empty tree.
C12_SentinelIntact ==
    /\ heap[sentinel] = SentinelNode
    /\ heap[sentinel].left = sentinel /\ heap[sentinel].right = sentinel
    /\ heap[sentinel].level = 0
    /\ \A x \in DOMAIN heap \ {sentinel} : heap[x].level >= 1
    /\ skew(heap, sentinel) = [h |-> heap, node |-> sentinel]
    /\ split(heap, sentinel) = [h |-> heap, node |-> sentinel]
    /\ \A obj \in Objs : objs[obj] = sentinel => ObjKeys(obj) = {}

\* an insertion has rotated both ways: the root is at level 2 over a left
\* child and a right child with a horizontal right link
C12_Witness ==
    /\ last.op = "js_setproperty" /\ last.created
    /\ heap[objs[1]].level = 2
    /\ objs[1] # 1
    /\ heap[objs[1]].left # sentinel
    /\ heap[heap[objs[1]].right].right # sentinel

---------------------------------------------------------------------------
(* Enumeration while the object grows *)

Range(seq) == { seq[i] : i \in 1 .. Len(seq) }

\* C13: with js_setproperty calls between the steps of a for-each-key loop,
\* each js_nextproperty(obj, K) returns the node with the smallest key
\* greater than K in the tree as it is at that call; the visited keys are
\* strictly ascending; every key present when the loop started is visited
\* before NULL is returned.
C13_EnumerationWhileGrowing ==
    /\ (last.op = "js_nextproperty" /\ last.name \in ObjKeys(last.tgt)) =>
          LET above == { k \in ObjKeys(last.tgt) : k > last.name }
          IN  IF above = {} THEN last.ret = NULL
              ELSE /\ last.ret \in NodesOf(heap, objs[last.tgt])
                   /\ heap[last.ret].name = Min(above)
    /\ enum.obj # 0 =>
          /\ \A i, j \in 1 .. Len(enum.visited) :
                i < j => enum.visited[i] < enum.visited[j]
          /\ enum.startKeys \subseteq ObjKeys(enum.obj)
          /\ Range(enum.visited) \subseteq ObjKeys(enum.obj)
          /\ enum.visited # <<>> =>
                \A k \in enum.startKeys :
                    k <= enum.visited[Len(enum.visited)] =>
                        k \in Range(enum.visited)
          /\ enum.done => enum.startKeys \subseteq Range(enum.visited)

\* a loop that ended after insertions in between: it visited a key that was
\* inserted ahead of it and missed one that was inserted behind it
C13_Witness ==
    /\ enum.obj # 0 /\ enum.done
    /\ enum.startKeys # {}
    /\ \E k \in Range(enum.visited) : k \notin enum.startKeys
    /\ \E k \in ObjKeys(enum.obj) : k \notin Range(enum.visited)
    /\ last.op = "js_nextproperty" /\ last.ret = NULL

---------------------------------------------------------------------------
(* Dump against enumeration *)

\* the nodes js_firstproperty and repeated js_nextproperty return, in order
RECURSIVE EnumFrom(_, _, _, _)
EnumFrom(h, os, obj, node) ==
    IF node = NULL \/ node = FAULT THEN <<>>
    ELSE <<node>> \o
         EnumFrom(h, os, obj, js_nextproperty(h, os, obj, h[node].name))

Enumerate(h, os, obj) == EnumFrom(h, os, obj, js_firstproperty(h, os, obj))

\* C14: js_dumpobject prints "{", one entry per property in ascending key
\* order, and "}"; the names printed are the names of the nodes that
\* js_firstproperty followed by repeated js_nextproperty returns, each with
\* its value's text; an empty object prints only the braces.
C14_DumpMatchesEnumeration ==
    last.op = "js_dumpobject" =>
        LET nodes   == Enumerate(heap, objs, last.tgt)
            entries == SubSeq(out, 2, Len(out) - 1)
        IN  /\ Len(out) = Cardinality(ObjKeys(last.tgt)) + 2
            /\ out[1] = OpenLine
            /\ out[Len(out)] = CloseLine
            /\ Len(entries) = Len(nodes)
            /\ \A i \in 1 .. Len(entries) :
                 entries[i] = EntryLine(heap[nodes[i]].name,
                                        js_dumpvalue(heap[nodes[i]].value))
            /\ [i \in 1 .. Len(entries) |-> entries[i].name]
                  = SortedSeq(ObjKeys(last.tgt))
            /\ ObjKeys(last.tgt) = {} => out = <<OpenLine, CloseLine>>

\* a dump of a tree whose root is neither the first node inserted nor the
\* smallest key, holding a stored number
C14_Witness ==
    /\ last.op = "js_dumpobject"
    /\ Len(out) = 5
    /\ objs[last.tgt] # 1
    /\ heap[objs[last.tgt]].left # sentinel
    /\ heap[1].name # Min(ObjKeys(last.tgt))
    /\ \E i \in 2 .. 4 : out[i].value = js_dumpvalue(JS_TNUMBER)

---------------------------------------------------------------------------
(* Fetching an existing key *)

\* the step is the caller's store into a node, not a call
IsStore == written' # written /\ DOMAIN written' = DOMAIN written

\* C15: js_setproperty(obj, name) with name already a key of obj returns
\* that key's node and leaves the root, and every node's links, level,
\* value and flags, as they were; skew and split, applied to the ancestors
\* on the way back, change nothing on any node of the tree.
C15_FetchChangesNothing ==
    [][(/\ last'.op = "js_setproperty"
        /\ last'.name \in ObjKeys(last'.tgt)
        /\ ~IsStore)
       => (/\ heap' = heap
           /\ objs' = objs
           /\ ~last'.created
           /\ last'.ret = lookup(heap, objs[last'.tgt], last'.name)
           /\ \A x \in NodesOf(heap, objs[last'.tgt]) :
                /\ skew(heap, x) = [h |-> heap, node |-> x]
                /\ split(heap, x) = [h |-> heap, node |-> x])]_vars

\* a key below the root of a tree of level 2 was fetched, another node
\* holding a number stored before
C15_Witness ==
    /\ last.op = "js_setproperty"
    /\ ~last.created
    /\ heap[objs[last.tgt]].level = 2
    /\ last.ret # objs[last.tgt]
    /\ heap[heap[objs[last.tgt]].right].right # sentinel
    /\ \E x \in NodesOf(heap, objs[last.tgt]) \ {last.ret} :
          heap[x].value = JS_TNUMBER

---------------------------------------------------------------------------
(* Scope chains are fixed and finite *)

\* the scopes whose bindings the loop of js_getvar looks up, in order
RECURSIVE GetVarVisits(_, _, _, _, _)
GetVarVisits(h, os, es, E, name) ==
    IF E # NoEnv
    THEN IF js_getproperty(h, os, es[E].variables, name) # NULL THEN <<E>>
         ELSE <<E>> \o GetVarVisits(h, os, es, es[E].outer, name)
    ELSE <<>>

\* the scopes whose bindings the loop of js_setvar looks up, in order
RECURSIVE SetVarVisits(_, _, _, _, _)
SetVarVisits(h, os, es, E, name) ==
    IF js_getproperty(h, os, es[E].variables, name) # NULL THEN <<E>>
    ELSE IF es[E].outer = NoEnv THEN <<E>>
    ELSE <<E>> \o SetVarVisits(h, os, es, es[E].outer, name)

Injective(seq) ==
    \A i, j \in 1 .. Len(seq) : i # j => seq[i] # seq[j]

IsPrefix(s, t) == Len(s) <= Len(t) /\ s = SubSeq(t, 1, Len(s))

\* C16: only js_newenvironment writes outer and variables, and only of the
\* environment it creates, whose outer is an existing environment or none;
\* so every chain is finite and acyclic, the loops of js_getvar and
\* js_setvar look each scope of the chain up at most once and end, and
\* js_setvar returns a node.
C16_ChainsFixedAndFinite ==
    [][(/\ \A E \in Envs : E <= Len(envs') /\ envs'[E] = envs[E]
        /\ envs' # envs =>
              /\ last'.op = "js_newenvironment"
              /\ Len(envs') = Len(envs) + 1
              /\ envs'[Len(envs')].outer \in Envs \cup {NoEnv}
        /\ \A E \in 1 .. Len(envs') : envs'[E].outer < E
        /\ \A E \in 1 .. Len(envs') :
              /\ Injective(Chain(envs', E))
              /\ Len(Chain(envs', E)) <= Len(envs')
        /\ last'.op = "js_getvar" =>
              LET v == GetVarVisits(heap, objs, envs, last'.tgt, last'.name)
              IN  /\ IsPrefix(v, Chain(envs, last'.tgt))
                  /\ Injective(v)
        /\ last'.op = "js_setvar" =>
              LET v == SetVarVisits(heap, objs, envs, last'.tgt, last'.name)
              IN  /\ IsPrefix(v, Chain(envs, last'.tgt))
                  /\ Injective(v)
                  /\ last'.ret \in DOMAIN heap' \ {sentinel}
                  /\ last'.ret \in ScopeNodes(heap', objs', envs',
                                              v[Len(v)]))]_vars

\* js_setvar walked a chain of two scopes to its root and created the
\* binding there, a second chain branching off the same root
C16_Witness ==
    /\ last.op = "js_setvar"
    /\ last.created
    /\ Len(Chain(envs, last.tgt)) = 2
    /\ Len(envs) = 3
    /\ \E E \in Envs : E # last.tgt /\ envs[E].outer = envs[last.tgt].outer
    /\ Allocated = 2

====
